---- MODULE Spec2Model ----
(***************************************************************************)
(* Model of app.py, a Streamlit dashboard with three modes:                *)
(*   1  single-customer prediction (form -> one POST to the endpoint)      *)
(*   2  batch prediction (uploaded sheet -> one POST per row -> export)    *)
(*   3  visual analytics over a previously scored sheet                    *)
(*                                                                         *)
(* Units: money in whole USD, avg_purchase_frequency in tenths,            *)
(* discount_behavior and probabilities in hundredths.  Python None / an    *)
(* empty sheet cell is the empty tuple, a present value v is <<v>>.        *)
(* JSON booleans are 0/1 (Python: True == 1, False == 0).                  *)
(***************************************************************************)
EXTENDS Integers, Sequences, FiniteSets, TLC

VARIABLES
    menu,       \* selected mode: 1, 2 or 3                       (app.py:19)
    form,       \* values of the nine single-mode widgets         (app.py:31-39)
    display,    \* what single mode rendered after Predict        (app.py:57-63)
    uploaded,   \* batch-mode uploaded file, None or <<table>>    (app.py:71)
    df,         \* batch-mode DataFrame, None or <<table>>        (app.py:74)
    bpc,        \* position of the batch handler                  (app.py:77-107)
    preds,      \* list preds of the batch loop                   (app.py:78)
    probs,      \* list probs of the batch loop                   (app.py:78)
    exported,   \* bytes offered for download, None or <<sheet>>  (app.py:98-107)
    sent,       \* requests posted during the current script run  (app.py:55,82)
    resps,      \* what the endpoint answered to each of them
    vuploaded,  \* analytics-mode uploaded file                   (app.py:115)
    vout        \* what analytics mode rendered                   (app.py:119-136)

vars == <<menu, form, display, uploaded, df, bpc, preds, probs, exported,
          sent, resps, vuploaded, vout>>

----------------------------------------------------------------------------
(* Bounds *)

MaxRows == 2

MaxVRows == 4

----------------------------------------------------------------------------
(* Generic helpers *)

None == <<>>

Some(v) == <<v>>

Range(s) == {s[i] : i \in DOMAIN s}

SeqsUpTo(S, n) == UNION {[1..k -> S] : k \in 0..n}

----------------------------------------------------------------------------
(* The nine payload keys, in the order the single-mode payload lists them *)

Required ==
    <<"total_spent", "avg_order_value", "avg_purchase_frequency",
      "days_since_last_purchase", "discount_behavior",
      "loyalty_program_member", "days_in_advance", "flight_type",
      "cabin_class">>

RequiredSet == Range(Required)

NumericFields ==
    {"total_spent", "avg_order_value", "avg_purchase_frequency",
     "days_since_last_purchase", "discount_behavior", "days_in_advance"}

----------------------------------------------------------------------------
(* Single mode: the widgets *)

FormDefaults ==
    [total_spent |-> 0, avg_order_value |-> 0, avg_purchase_frequency |-> 0,
     days_since_last_purchase |-> 30, discount_behavior |-> 20,
     loyalty_program_member |-> 0, days_in_advance |-> 14,
     flight_type |-> "domestic", cabin_class |-> "economy"]

\* values a user may try to put into each widget (out-of-range ones included)
Attempts(f) ==
    CASE f = "total_spent"              -> {-10, 0, 10}
      [] f = "avg_order_value"          -> {-5, 0, 5}
      [] f = "avg_purchase_frequency"   -> {-1, 0, 1}
      [] f = "days_since_last_purchase" -> {-1, 30, 31}
      [] f = "discount_behavior"        -> {-5, 0, 20, 100, 101}
      [] f = "loyalty_program_member"   -> {0, 1}
      [] f = "days_in_advance"          -> {-1, 14, 15}
      [] f = "flight_type"              -> {"domestic", "international"}
      [] f = "cabin_class"              -> {"economy", "business"}

\* st.number_input(min_value=..., max_value=...): a value outside the bounds
\* is not committed, the widget keeps its current value
NumberInput(lo, hi, v, cur) ==
    IF v >= lo /\ (hi = None \/ v <= hi[1]) THEN v ELSE cur

\* st.selectbox(options=...): only a listed option can be chosen
SelectBox(options, v, cur) == IF v \in options THEN v ELSE cur

Widget(f, v, cur) ==
    CASE f = "discount_behavior"      -> NumberInput(0, Some(100), v, cur)
      [] f = "loyalty_program_member" -> SelectBox({0, 1}, v, cur)
      [] f = "flight_type"            -> SelectBox({"domestic", "international"}, v, cur)
      [] f = "cabin_class"            -> SelectBox({"economy", "business"}, v, cur)
      [] OTHER                        -> NumberInput(0, None, v, cur)

SinglePayload(fm) == [k \in RequiredSet |-> fm[k]]

----------------------------------------------------------------------------
(* The endpoint: every answer requests.post can come back with *)

HttpAnswers ==
    {<<200, TRUE, 1, 80>>, <<200, TRUE, 0, 30>>, <<200, FALSE, 0, 0>>,
     <<201, TRUE, 1, 80>>, <<302, TRUE, 0, 30>>, <<302, FALSE, 0, 0>>,
     <<404, FALSE, 0, 0>>}

\* "neterr": requests.post raised (connection failure, timeout);
\* "http": a response came back; json tells whether its body is a JSON object
\* holding will_buy_after_price_increase and probability
Responses ==
    {[kind |-> "neterr", status |-> 0, json |-> FALSE, will |-> 0, prob |-> 0]}
    \cup {[kind |-> "http", status |-> a[1], json |-> a[2], will |-> a[3],
           prob |-> a[4]] : a \in HttpAnswers}

\* requests.Response.ok: raise_for_status() raises for 400 <= status < 600
RespOk(r) == ~(r.status >= 400 /\ r.status < 600)

\* resp.json() followed by the two key lookups; raises when the body is not
\* a JSON object with the two keys
Parses(r) == r.json

\* a client that repeats the request once
PostRequestRetried(log, src, k, payload) ==
    Append(Append(log, [src |-> src, row |-> k, payload |-> payload]),
           [src |-> src, row |-> k, payload |-> payload])

\* requests.post(API_URL, json=payload, timeout=10): one request on the wire
PostRequest(log, src, k, payload) ==
    Append(log, [src |-> src, row |-> k, payload |-> payload])

NoDisplay == [kind |-> "none", status |-> 0, will |-> 0, prob |-> 0]

\* lines 57-63: only status 200 is read as a prediction
SingleOutcome(r) ==
    IF r.kind = "neterr" THEN [NoDisplay EXCEPT !.kind = "exception"]
    ELSE IF r.status = 200
         THEN IF Parses(r)
              THEN [kind |-> "prediction", status |-> r.status,
                    will |-> r.will, prob |-> r.prob]
              ELSE [NoDisplay EXCEPT !.kind = "exception"]
         ELSE [NoDisplay EXCEPT !.kind = "error", !.status = r.status]

----------------------------------------------------------------------------
(* Sheets: a table is [cols: sequence of header names, rows: sequence of   *)
(* rows], a row being a function from the table's column names to cells.   *)
(* pd.read_excel yields such a frame for whatever headers the file has.    *)

Eight == SubSeq(Required, 1, 8)

BatchLayouts ==
    {Required,
     Eight,
     Required \o <<"customer_id">>,
     Required \o <<"Prediction", "Probability">>,
     Required \o <<"Prediction", "customer_id">>}

BatchRowKinds == {"typical", "edge", "invalid"}

\* the cell a row of the given kind holds under column c
RowCell(kind, c) ==
    CASE c = "total_spent"              -> IF kind = "invalid" THEN -5
                                           ELSE IF kind = "edge" THEN 0 ELSE 250
      [] c = "avg_order_value"          -> IF kind = "edge" THEN 0 ELSE 50
      [] c = "avg_purchase_frequency"   -> IF kind = "edge" THEN 0 ELSE 12
      [] c = "days_since_last_purchase" -> IF kind = "invalid" THEN -1 ELSE 30
      [] c = "discount_behavior"        -> IF kind = "invalid" THEN 101
                                           ELSE IF kind = "edge" THEN 100 ELSE 20
      [] c = "loyalty_program_member"   -> IF kind = "edge" THEN 1 ELSE 0
      [] c = "days_in_advance"          -> IF kind = "edge" THEN 0 ELSE 14
      [] c = "flight_type"              -> IF kind = "edge" THEN "international"
                                           ELSE "domestic"
      [] c = "cabin_class"              -> IF kind = "edge" THEN "business"
                                           ELSE "economy"
      [] c = "customer_id"              -> IF kind = "typical" THEN 7001
                                           ELSE IF kind = "edge" THEN 7002 ELSE 7003
      [] c = "Prediction"               -> IF kind \in {"typical", "cont"} THEN Some(1)
                                           ELSE IF kind = "failed" THEN None ELSE Some(0)
      [] c = "Probability"              -> IF kind = "typical" THEN Some(77)
                                           ELSE IF kind = "cont" THEN Some(90)
                                           ELSE IF kind = "failed" THEN None
                                           ELSE IF kind = "stop" THEN Some(30) ELSE Some(12)

MakeRow(cols, kind) == [c \in Range(cols) |-> RowCell(kind, c)]

MakeTable(cols, kinds) ==
    [cols |-> cols, rows |-> [i \in DOMAIN kinds |-> MakeRow(cols, kinds[i])]]

BatchTables ==
    {MakeTable(l, ks) : l \in BatchLayouts, ks \in SeqsUpTo(BatchRowKinds, MaxRows)}

VisualLayouts ==
    {Required \o <<"Prediction", "Probability">>,
     Required \o <<"Prediction">>,
     Required \o <<"Probability">>,
     Required}

VisualRowKinds == {"cont", "stop", "failed"}

VisualTables ==
    {MakeTable(l, ks) : l \in VisualLayouts, ks \in SeqsUpTo(VisualRowKinds, MaxVRows)}

\* table[name]: the column as a sequence of cells
Column(t, name) == [i \in DOMAIN t.rows |-> t.rows[i][name]]

----------------------------------------------------------------------------
(* Batch mode *)

\* an assignment that drops an existing column and adds it again at the end
SetColumnMovedLast(t, name, vals) ==
    LET newcols == Append(SelectSeq(t.cols, LAMBDA c : c # name), name)
    IN  [cols |-> newcols,
         rows |-> [i \in DOMAIN t.rows |->
                     [c \in Range(newcols) |->
                        IF c = name THEN vals[i] ELSE t.rows[i][c]]]]

\* df[name] = vals: an existing column is overwritten where it stands, a new
\* one is appended as the last column
SetColumn(t, name, vals) ==
    LET newcols == IF name \in Range(t.cols) THEN t.cols
                   ELSE Append(t.cols, name)
    IN  [cols |-> newcols,
         rows |-> [i \in DOMAIN t.rows |->
                     [c \in Range(newcols) |->
                        IF c = name THEN vals[i] ELSE t.rows[i][c]]]]

\* df.to_excel(writer, index=False): one header row, then the cells of each
\* row in column order
ToExcel(t) ==
    [header |-> t.cols,
     body   |-> [i \in DOMAIN t.rows |->
                   [j \in DOMAIN t.cols |-> t.rows[i][t.cols[j]]]]]

\* the index of the row the loop scores next
NextRow == Len(preds) + 1

\* one iteration of the loop body for answer r: the appended pair, or None
\* when the iteration raises (requests.post raised, or resp.json() did)
Iteration(r) ==
    IF r.kind = "neterr" THEN [raised |-> TRUE, pred |-> None, prob |-> None]
    ELSE IF RespOk(r)
         THEN IF Parses(r)
              THEN [raised |-> FALSE, pred |-> Some(r.will), prob |-> Some(r.prob)]
              ELSE [raised |-> TRUE, pred |-> None, prob |-> None]
         ELSE [raised |-> FALSE, pred |-> None, prob |-> None]

----------------------------------------------------------------------------
(* Visual analytics *)

\* a check that looks for the Prediction column only
HasPredictionColumn(t) == "Prediction" \in Range(t.cols)

\* {"Prediction", "Probability"}.issubset(df.columns)
HasScoreColumns(t) == {"Prediction", "Probability"} \subseteq Range(t.cols)

\* the present values of a column, absent cells skipped (pandas skipna/dropna)
Present(col) == SelectSeq(col, LAMBDA x : x # None)

RECURSIVE SumCells(_)
SumCells(col) == IF col = <<>> THEN 0 ELSE Head(col)[1] + SumCells(Tail(col))

\* f"{df['Prediction'].mean() * 100:.2f}%": hundredths of a percent, rounded
\* to nearest; the mean of no values is NaN
PctMetric(col) ==
    LET p == Present(col)
        n == Len(p)
    IN  IF n = 0 THEN [nan |-> TRUE, value |-> 0]
        ELSE [nan |-> FALSE, value |-> (2 * 10000 * SumCells(p) + n) \div (2 * n)]

\* Series.value_counts(): one entry per value that occurs, absent cells dropped
ValueCounts(col) ==
    LET p == Present(col)
    IN  [v \in {p[i][1] : i \in DOMAIN p} |->
            Cardinality({i \in DOMAIN p : p[i][1] = v})]

SegmentNamesSwapped == [v \in {0, 1} |-> IF v = 0 THEN "Continue" ELSE "Stop"]

\* index={0: "Stop", 1: "Continue"}
SegmentNames == [v \in {0, 1} |-> IF v = 0 THEN "Stop" ELSE "Continue"]

\* .rename(index=mapping): index labels found in the mapping are replaced
RenameIndex(vc, mapping) ==
    LET label(v) == IF v \in DOMAIN mapping THEN mapping[v] ELSE v
    IN  [l \in {label(v) : v \in DOMAIN vc} |->
            vc[CHOOSE v \in DOMAIN vc : label(v) = l]]

Bins == 20

\* sns.histplot(..., bins=20): equal-width bins over [min, max] of the present
\* values (over [min - 0.5, max + 0.5] when they coincide), last bin closed
Histogram(col) ==
    LET p  == Present(col)
        vs == {p[i][1] : i \in DOMAIN p}
        mn == CHOOSE v \in vs : \A w \in vs : v <= w
        mx == CHOOSE v \in vs : \A w \in vs : v >= w
        lo == IF mn = mx THEN mn - 50 ELSE mn
        hi == IF mn = mx THEN mx + 50 ELSE mx
        bin(v) == IF v = hi THEN Bins ELSE ((v - lo) * Bins) \div (hi - lo) + 1
    IN  IF vs = {} THEN [b \in 1..Bins |-> 0]
        ELSE [b \in 1..Bins |-> Cardinality({i \in DOMAIN p : bin(p[i][1]) = b})]

NoVisual ==
    [error |-> FALSE, preview |-> FALSE, metric |-> None, hist |-> None,
     counts |-> None]

\* lines 118-136
Analytics(t) ==
    IF HasScoreColumns(t)
    THEN [error   |-> FALSE,
          preview |-> TRUE,
          metric  |-> Some(PctMetric(Column(t, "Prediction"))),
          hist    |-> Some(Histogram(Column(t, "Probability"))),
          counts  |-> Some(RenameIndex(ValueCounts(Column(t, "Prediction")),
                                       SegmentNames))]
    ELSE [NoVisual EXCEPT !.error = TRUE]

----------------------------------------------------------------------------
(* State machine.  Every user interaction reruns the script from the top,  *)
(* so whatever an earlier run rendered is gone unless this run renders it  *)
(* again; a batch run is followed iteration by iteration.                  *)

Init ==
    /\ menu = 1
    /\ form = FormDefaults
    /\ display = NoDisplay
    /\ uploaded = None
    /\ df = None
    /\ bpc = "idle"
    /\ preds = <<>>
    /\ probs = <<>>
    /\ exported = None
    /\ sent = <<>>
    /\ resps = <<>>
    /\ vuploaded = None
    /\ vout = NoVisual

Running == bpc = "loop"

\* the sidebar radio: widgets of the mode left behind lose their state
SelectMode(m) ==
    /\ ~Running
    /\ m # menu
    /\ menu' = m
    /\ form' = FormDefaults
    /\ display' = NoDisplay
    /\ uploaded' = None
    /\ df' = None
    /\ bpc' = "idle"
    /\ preds' = <<>>
    /\ probs' = <<>>
    /\ exported' = None
    /\ sent' = <<>>
    /\ resps' = <<>>
    /\ vuploaded' = None
    /\ vout' = NoVisual

\* editing one widget of the form: a rerun with the button not pressed
EditForm(f, v) ==
    /\ menu = 1
    /\ form' = [form EXCEPT ![f] = Widget(f, v, form[f])]
    /\ display' = NoDisplay
    /\ sent' = <<>>
    /\ resps' = <<>>
    /\ UNCHANGED <<menu, uploaded, df, bpc, preds, probs, exported, vuploaded, vout>>

\* lines 41-63
PressPredict(r) ==
    /\ menu = 1
    /\ sent' = PostRequest(<<>>, "single", 0, SinglePayload(form))
    /\ resps' = <<r>>
    /\ display' = SingleOutcome(r)
    /\ UNCHANGED <<menu, form, uploaded, df, bpc, preds, probs, exported, vuploaded, vout>>

\* lines 71-75: a file is chosen, read and previewed
Upload(t) ==
    /\ menu = 2
    /\ ~Running
    /\ uploaded' = Some(t)
    /\ df' = Some(t)
    /\ bpc' = "ready"
    /\ preds' = <<>>
    /\ probs' = <<>>
    /\ exported' = None
    /\ sent' = <<>>
    /\ resps' = <<>>
    /\ UNCHANGED <<menu, form, display, vuploaded, vout>>

\* lines 74-78: the button reruns the script, the file is read again and the
\* two lists start empty
PressRun ==
    /\ menu = 2
    /\ uploaded # None
    /\ ~Running
    /\ df' = uploaded
    /\ bpc' = "loop"
    /\ preds' = <<>>
    /\ probs' = <<>>
    /\ exported' = None
    /\ sent' = <<>>
    /\ resps' = <<>>
    /\ UNCHANGED <<menu, form, display, uploaded, vuploaded, vout>>

\* lines 80-89: one iteration of the loop
ScoreRow(r) ==
    /\ Running
    /\ NextRow <= Len(df[1].rows)
    /\ sent' = PostRequest(sent, "batch", NextRow, df[1].rows[NextRow])
    /\ resps' = Append(resps, r)
    /\ LET it == Iteration(r)
       IN  IF it.raised
           THEN /\ bpc' = "aborted"
                /\ UNCHANGED <<preds, probs>>
           ELSE /\ preds' = Append(preds, it.pred)
                /\ probs' = Append(probs, it.prob)
                /\ UNCHANGED bpc
    /\ UNCHANGED <<menu, form, display, uploaded, df, exported, vuploaded, vout>>

\* lines 91-107: the loop is exhausted
FinishBatch ==
    /\ Running
    /\ NextRow > Len(df[1].rows)
    /\ LET scored == SetColumn(SetColumn(df[1], "Prediction", preds),
                               "Probability", probs)
       IN  /\ df' = Some(scored)
           /\ exported' = Some(ToExcel(scored))
    /\ bpc' = "done"
    /\ UNCHANGED <<menu, form, display, uploaded, preds, probs, sent, resps,
                   vuploaded, vout>>

\* lines 115-136
VisualUpload(t) ==
    /\ menu = 3
    /\ vuploaded' = Some(t)
    /\ vout' = Analytics(t)
    /\ UNCHANGED <<menu, form, display, uploaded, df, bpc, preds, probs,
                   exported, sent, resps>>

Next ==
    \/ \E m \in 1..3 : SelectMode(m)
    \/ \E f \in RequiredSet : \E v \in Attempts(f) : EditForm(f, v)
    \/ \E r \in Responses : PressPredict(r)
    \/ \E t \in BatchTables : Upload(t)
    \/ PressRun
    \/ \E r \in Responses : ScoreRow(r)
    \/ FinishBatch
    \/ \E t \in VisualTables : VisualUpload(t)

Spec == Init /\ [][Next]_vars

----------------------------------------------------------------------------
(* Vocabulary of the properties *)

Is2xx(r) == r.kind = "http" /\ r.status >= 200 /\ r.status <= 299

\* NetworkError: the call raised; ServiceError: a non-2xx status came back
IsNetworkError(r) == r.kind = "neterr"

IsServiceError(r) == r.kind = "http" /\ ~Is2xx(r)

InBatchRun == menu = 2 /\ bpc \in {"loop", "done", "aborted"}

BatchDone == menu = 2 /\ bpc = "done"

InputTable == uploaded[1]

ValidRecord(p) ==
    /\ \A f \in NumericFields \cap DOMAIN p : p[f] >= 0
    /\ "discount_behavior" \in DOMAIN p => p["discount_behavior"] <= 100

----------------------------------------------------------------------------
(* Properties *)

\* C1: in a batch run, every record whose call failed with a NetworkError or a
\* ServiceError has an absent Prediction and an absent Probability recorded at
\* its position, and the run is never aborted by it.
C1_FailureNeverAborts ==
    InBatchRun =>
        \A k \in DOMAIN resps :
            (IsNetworkError(resps[k]) \/ IsServiceError(resps[k])) =>
                /\ bpc # "aborted"
                /\ k <= Len(preds)
                /\ preds[k] = None
                /\ probs[k] = None

\* C2: a completed batch run over N rows yields N scored rows in input order,
\* the absent results sit exactly at the records the endpoint answered with a
\* non-success status, and every other record holds the prediction and the
\* probability returned for it.
C2_AbsentExactlyAtFailures ==
    BatchDone =>
        /\ Len(df[1].rows) = Len(InputTable.rows)
        /\ Len(resps) = Len(InputTable.rows)
        /\ \A k \in DOMAIN df[1].rows :
              IF IsServiceError(resps[k])
              THEN /\ df[1].rows[k]["Prediction"] = None
                   /\ df[1].rows[k]["Probability"] = None
              ELSE /\ df[1].rows[k]["Prediction"] = Some(resps[k].will)
                   /\ df[1].rows[k]["Probability"] = Some(resps[k].prob)

\* C3: when the uploaded batch file lacks one of the nine required columns the
\* batch is blocked before any network call: no request is ever sent for it.
C3_MissingColumnBlocksBatch ==
    (menu = 2 /\ uploaded # None /\ ~(RequiredSet \subseteq Range(InputTable.cols))) =>
        sent = <<>>

\* C4: a response with a non-2xx status is a failure in both modes: single
\* mode shows the error with that status, batch mode records an absent result,
\* and its body is never read as a prediction.
C4_Non2xxIsFailure ==
    \A k \in DOMAIN resps :
        IsServiceError(resps[k]) =>
            /\ menu = 1 => (display.kind = "error" /\ display.status = resps[k].status)
            /\ menu = 2 => (bpc # "aborted" /\ k <= Len(preds)
                            /\ preds[k] = None /\ probs[k] = None)

\* C5: at most one request per record and no retry: a batch run over N rows
\* sends at most N requests, the k-th request carries the k-th row, no row is
\* requested twice, and one press of Predict sends exactly one request.
C5_OneRequestPerRecord ==
    /\ Len(sent) = Len(resps)
    /\ InBatchRun =>
          /\ Len(sent) <= Len(InputTable.rows)
          /\ \A k \in DOMAIN sent :
                /\ sent[k].src = "batch"
                /\ sent[k].row = k
                /\ sent[k].payload = InputTable.rows[k]
          /\ \A i, j \in DOMAIN sent : i # j => sent[i].row # sent[j].row
    /\ menu = 1 =>
          /\ Len(sent) <= 1
          /\ display.kind # "none" <=> Len(sent) = 1
          /\ \A k \in DOMAIN sent : sent[k].payload = SinglePayload(form)

C5_Witness ==
    /\ BatchDone
    /\ Len(sent) = 2
    /\ IsServiceError(resps[1])
    /\ resps[1].status = 404
    /\ Is2xx(resps[2])

\* C6: the body of every request sent, from either mode, has exactly the nine
\* CustomerRecord keys.
C6_PayloadKeysExact ==
    \A k \in DOMAIN sent : DOMAIN sent[k].payload = RequiredSet

\* C7: every record sent to the endpoint, from either mode, has non-negative
\* numeric fields and discount_behavior within [0, 1].
C7_SubmittedRecordsValid ==
    \A k \in DOMAIN sent : ValidRecord(sent[k].payload)

\* C8 as stated: the exported sheet is the input columns, untouched, followed
\* by Prediction and Probability, for every uploaded table.
C8_AlwaysAppended ==
    BatchDone =>
        /\ exported[1].header = InputTable.cols \o <<"Prediction", "Probability">>
        /\ Len(exported[1].body) = Len(InputTable.rows)
        /\ \A i \in DOMAIN InputTable.rows : \A j \in DOMAIN InputTable.cols :
              exported[1].body[i][j] = InputTable.rows[i][InputTable.cols[j]]

\* C8 amended: the exported sheet keeps the input header in order, followed by
\* those of Prediction, Probability the input did not have; every column not
\* named Prediction or Probability keeps its cells, and the columns Prediction
\* and Probability hold this run's results wherever they stand.
C8_AppendedOrOverwritten ==
    BatchDone =>
        LET added == SelectSeq(<<"Prediction", "Probability">>,
                               LAMBDA c : c \notin Range(InputTable.cols))
            out == exported[1]
        IN  /\ out.header = InputTable.cols \o added
            /\ Len(out.body) = Len(InputTable.rows)
            /\ \A i \in DOMAIN out.body :
                  /\ Len(out.body[i]) = Len(out.header)
                  /\ \A j \in DOMAIN out.header :
                        out.body[i][j] =
                            IF out.header[j] = "Prediction" THEN preds[i]
                            ELSE IF out.header[j] = "Probability" THEN probs[i]
                            ELSE InputTable.rows[i][out.header[j]]

C8_Witness ==
    /\ BatchDone
    /\ InputTable.cols = Required \o <<"Prediction", "customer_id">>
    /\ Len(InputTable.rows) = 2
    /\ InputTable.rows[1]["Prediction"] = Some(1)
    /\ preds = <<Some(0), None>>
    /\ exported[1].header = Required \o <<"Prediction", "customer_id", "Probability">>

\* C9: analytics on a table lacking Prediction or Probability shows the schema
\* error and renders no aggregate; with both columns present every aggregate
\* is rendered and no error is shown.
C9_SchemaCheck ==
    vuploaded # None =>
        LET t == vuploaded[1]
        IN  IF "Prediction" \in Range(t.cols) /\ "Probability" \in Range(t.cols)
            THEN /\ ~vout.error
                 /\ vout.preview
                 /\ vout.metric # None
                 /\ vout.hist # None
                 /\ vout.counts # None
            ELSE /\ vout.error
                 /\ ~vout.preview
                 /\ vout.metric = None
                 /\ vout.hist = None
                 /\ vout.counts = None

C9_Witness ==
    /\ vuploaded # None
    /\ "Prediction" \in Range(vuploaded[1].cols)
    /\ "Probability" \notin Range(vuploaded[1].cols)
    /\ Len(vuploaded[1].rows) > 0
    /\ vout.error

Rendered == menu = 3 /\ vuploaded # None /\ vout.counts # None

PredictionColumn == Column(vuploaded[1], "Prediction")

OnlyZeroOne == \A i \in DOMAIN PredictionColumn : PredictionColumn[i] \in {Some(0), Some(1)}

RowsWith(v) == Cardinality({i \in DOMAIN PredictionColumn : PredictionColumn[i] = Some(v)})

\* the shown percentage (in hundredths) is num/den * 100 rounded to nearest
ShowsShare(m, num, den) ==
    /\ ~m.nan
    /\ 2 * den * m.value <= 2 * 10000 * num + den
    /\ 2 * den * m.value > 2 * 10000 * num - den

\* C10 as stated: for every table whose Prediction column holds only 0/1, the
\* share is (#1)/(#rows) and segment_counts has both keys, Continue -> #1 and
\* Stop -> #0.
C10_BothSegmentsPresent ==
    (Rendered /\ OnlyZeroOne) =>
        /\ ShowsShare(vout.metric[1], RowsWith(1), Len(PredictionColumn))
        /\ DOMAIN vout.counts[1] = {"Continue", "Stop"}
        /\ vout.counts[1]["Continue"] = RowsWith(1)
        /\ vout.counts[1]["Stop"] = RowsWith(0)

\* C10 amended: for every table whose Prediction column holds only 0/1, a
\* segment has a key exactly when some row falls in it, Continue -> #1 and
\* Stop -> #0 for the keys present, the counts add up to the row count, and
\* when the table has at least one row the share is (#1)/(#rows).
C10_OccurringSegmentsCounted ==
    (Rendered /\ OnlyZeroOne) =>
        LET c == vout.counts[1]
        IN  /\ Len(PredictionColumn) > 0 =>
                  ShowsShare(vout.metric[1], RowsWith(1), Len(PredictionColumn))
            /\ Len(PredictionColumn) = 0 => vout.metric[1].nan
            /\ DOMAIN c = {l \in {"Continue", "Stop"} :
                              RowsWith(IF l = "Continue" THEN 1 ELSE 0) > 0}
            /\ "Continue" \in DOMAIN c => c["Continue"] = RowsWith(1)
            /\ "Stop" \in DOMAIN c => c["Stop"] = RowsWith(0)
            /\ RowsWith(1) + RowsWith(0) = Len(PredictionColumn)

C10_Witness ==
    /\ Rendered
    /\ PredictionColumn = <<Some(1), Some(1), Some(0), Some(1)>>
    /\ vout.metric[1] = [nan |-> FALSE, value |-> 7500]
    /\ DOMAIN vout.counts[1] = {"Continue", "Stop"}
    /\ vout.counts[1]["Continue"] = 3
    /\ vout.counts[1]["Stop"] = 1

====
